---- MODULE Spec2Model ----
(***************************************************************************)
(* The user-registration webhook API of fastapi_oci, in its two variants:  *)
(*   "render"  src/api_render.py  (PostgreSQL: create, list, get, update,  *)
(*                                 soft-delete)                            *)
(*   "sqlite"  src/main.py        (SQLite: create only)                    *)
(* A behaviour is one deployment of one variant; every step is one         *)
(* statement-and-commit of a request handler against the users table.      *)
(***************************************************************************)
EXTENDS Integers, Sequences, FiniteSets, TLC

VARIABLES variant,       \* which program is deployed
          users,         \* the rows of table users
          users_id_seq,  \* last value handed out by the id generator
          now,           \* the clock behind CURRENT_TIMESTAMP / datetime.now()
          listing,       \* the GET /users request between its two queries
          resp,          \* the last HTTP response sent
          created,       \* history: ids returned by successful creates
          open_conns     \* store connections opened and not yet closed

vars == <<variant, users, users_id_seq, now, listing, resp, created, open_conns>>

(***************************************************************************)
(* Bounds of the model.                                                    *)
(***************************************************************************)
MaxSeq == 2
MaxClock == 1

(***************************************************************************)
(* Column widths of CREATE TABLE users (src/api_render.py).                *)
(***************************************************************************)
USERNAME_LEN == 100
STATUS_LEN == 20

(***************************************************************************)
(* Python's Optional values: None is <<>>, a supplied value v is <<v>>.    *)
(***************************************************************************)
None == <<>>
Some(v) == <<v>>
Val(o) == o[1]

RECURSIVE Rep(_, _)
Rep(s, n) == IF n = 0 THEN "" ELSE s \o Rep(s, n - 1)

(***************************************************************************)
(* Request inputs.  Emails are addresses EmailStr accepts.  LongName is    *)
(* one character wider than the username column; PaddedName exceeds the    *)
(* column only by a trailing space.                                        *)
(***************************************************************************)
Emails == {"ana@example.com", "bob@example.com"}
LongName == Rep("x", USERNAME_LEN + 1)
PaddedName == Rep("y", USERNAME_LEN) \o " "
Usernames == {"ana", LongName, PaddedName}
Statuses == {"active", "deleted"}
Ids == 1 .. MaxSeq
Limits == {-1, 0, 1, 2}
Offsets == {-1, 0, 1}
StatusFilters == {None, Some("deleted"), Some("")}
Opt(S) == {None} \cup {Some(v) : v \in S}

(***************************************************************************)
(* The store.                                                              *)
(***************************************************************************)
RECURSIVE AllSpaces(_)
AllSpaces(s) == Len(s) = 0 \/ (SubSeq(s, 1, 1) = " " /\ AllSpaces(SubSeq(s, 2, Len(s))))

\* Assignment of s to a VARCHAR(n) column: an over-length value is an error
\* (DataError) unless the excess is all spaces, which the store cuts off.
VarcharFits(s, n) == Len(s) <= n \/ AllSpaces(SubSeq(s, n + 1, Len(s)))
VarcharValue(s, n) == IF Len(s) <= n THEN s ELSE SubSeq(s, 1, n)

IdsOf(tbl) == {r.id : r \in tbl}
RowOf(tbl, id) == CHOOSE r \in tbl : r.id = id
RowsWithEmail(tbl, email) == {r \in tbl : r.email = email}

\* email ... UNIQUE: the row `id` may not take an email another row holds.
UniqueViolation(tbl, id, email) == \E r \in tbl : r.id # id /\ r.email = email

\* What the store answers to a statement: the SQLSTATE condition it raises.
Ok == "ok"
UNIQUE_VIOLATION == "unique_violation"
STRING_DATA_RIGHT_TRUNCATION == "string_data_right_truncation"

\* The driver's exception for a condition, as the handlers' except clauses
\* tell them apart: its class and whether its text names a unique constraint.
ExcClass(cond) == IF cond = UNIQUE_VIOLATION THEN "IntegrityError" ELSE "DataError"
ExcNamesUniqueConstraint(cond) == cond = UNIQUE_VIOLATION

\* INSERT INTO users (username, email, user_data): the target list is
\* evaluated (column widths) before the unique index is consulted.
InsertCondition(tbl, id, username, email) ==
    IF ~VarcharFits(username, USERNAME_LEN) THEN STRING_DATA_RIGHT_TRUNCATION
    ELSE IF UniqueViolation(tbl, id, email) THEN UNIQUE_VIOLATION
    ELSE Ok

InsertedRow(id, username, email, t) ==
    [id |-> id,
     username |-> VarcharValue(username, USERNAME_LEN),
     email |-> email,
     user_data |-> [created_via |-> "webhook", source |-> "api",
                    timestamp |-> t, ip_address |-> "unknown"],
     status |-> "active",
     created_at |-> t,
     updated_at |-> t]

\* engine.connect() / sqlite3.connect(): one more connection is open.
Acquire(n) == n + 1
\* Leaving the with block / conn.close(): the connection is given back.
Release(n) == n - 1

(***************************************************************************)
(* Initial state: the table as create_db_and_tables leaves a new database. *)
(***************************************************************************)
NoListing == [active |-> FALSE]
NoResponse == [op |-> "none", code |-> 0]

Init ==
    /\ variant \in {"render", "sqlite"}
    /\ users = {}
    /\ users_id_seq = 0
    /\ now = 0
    /\ listing = NoListing
    /\ resp = NoResponse
    /\ created = {}
    /\ open_conns = 0

\* Time passes between requests.
Tick ==
    /\ now < MaxClock
    /\ now' = now + 1
    /\ UNCHANGED <<variant, users, users_id_seq, listing, resp, created, open_conns>>

(***************************************************************************)
(* POST /new-user (src/api_render.py).  SERIAL draws the id from a         *)
(* sequence, which keeps the value drawn also when the INSERT fails.       *)
(***************************************************************************)
CreateStatus(cond) ==
    IF cond = Ok THEN 201
    ELSE IF ExcClass(cond) = "IntegrityError"
         THEN (IF ExcNamesUniqueConstraint(cond) THEN 409 ELSE 400)
         ELSE 500

receive_user_webhook(username, email) ==
    /\ variant = "render"
    /\ users_id_seq < MaxSeq
    /\ LET id == users_id_seq + 1
           cond == InsertCondition(users, id, username, email)
           code == CreateStatus(cond)
           req == [email |-> email]
       IN /\ users_id_seq' = id
          /\ IF cond = Ok
             THEN /\ users' = users \cup {InsertedRow(id, username, email, now)}
                  /\ created' = created \cup {id}
                  /\ resp' = [op |-> "create", req |-> req, code |-> code,
                              body |-> [user_id |-> id, created_at |-> now,
                                        data_saved |-> [username |-> username,
                                                        email |-> email]]]
             ELSE /\ UNCHANGED <<users, created>>
                  /\ resp' = [op |-> "create", req |-> req, code |-> code]
    /\ UNCHANGED <<variant, now, listing>>
    /\ open_conns' = Release(Acquire(open_conns))

(***************************************************************************)
(* POST /webhook/new-user (src/main.py).  TEXT columns have no width;      *)
(* AUTOINCREMENT advances only with the row that is inserted.              *)
(***************************************************************************)
SqliteInsertCondition(tbl, id, email) ==
    IF UniqueViolation(tbl, id, email) THEN UNIQUE_VIOLATION ELSE Ok

main_receive_user_webhook(username, email) ==
    /\ variant = "sqlite"
    /\ users_id_seq < MaxSeq
    /\ LET id == users_id_seq + 1
           cond == SqliteInsertCondition(users, id, email)
           req == [email |-> email]
       IN IF cond = Ok
          THEN /\ users' = users \cup {[id |-> id, username |-> username, email |-> email]}
               /\ users_id_seq' = id
               /\ created' = created \cup {id}
               /\ resp' = [op |-> "create", req |-> req, code |-> 201,
                           body |-> [user_id |-> id,
                                     data_saved |-> [username |-> username,
                                                     email |-> email]]]
          ELSE /\ UNCHANGED <<users, users_id_seq, created>>
               /\ resp' = [op |-> "create", req |-> req, code |-> 409]
    /\ UNCHANGED <<variant, now, listing>>
    /\ open_conns' = Release(Acquire(open_conns))

(***************************************************************************)
(* GET /users: the page query, then the COUNT query, on one connection.    *)
(***************************************************************************)
\* Python truth of an optional string: None and "" are both false.
Truthy(o) == o # None /\ Val(o) # ""

\* The rows the optional WHERE status = :status_filter clause selects.
Where(tbl, status_filter) ==
    IF Truthy(status_filter) THEN {r \in tbl : r.status = Val(status_filter)} ELSE tbl

\* ORDER BY created_at DESC: every order of the rows that respects it.
Orderings(rows) ==
    {o \in [1 .. Cardinality(rows) -> rows] :
        /\ \A i, j \in DOMAIN o : i # j => o[i] # o[j]
        /\ \A i, j \in DOMAIN o : i < j => o[i].created_at >= o[j].created_at}

Min(a, b) == IF a <= b THEN a ELSE b

\* LIMIT :limit OFFSET :offset
Page(order, limit, offset) == SubSeq(order, offset + 1, Min(offset + limit, Len(order)))

UserDict(r) ==
    [id |-> r.id, username |-> r.username, email |-> r.email,
     additional_data |-> r.user_data, status |-> r.status,
     created_at |-> r.created_at, updated_at |-> r.updated_at]

Pages_Floor(total, limit) == total \div limit

\* (total + limit - 1) // limit
Pages(total, limit) == (total + limit - 1) \div limit

\* The store rejects a negative LIMIT or OFFSET; the handler answers 500.
\* The connection of the with block stays open until the count query is done.
list_users_page(limit, offset, status_filter) ==
    /\ variant = "render"
    /\ ~listing.active
    /\ LET req == [limit |-> limit, offset |-> offset, status_filter |-> status_filter]
       IN IF limit < 0 \/ offset < 0
          THEN /\ resp' = [op |-> "list", code |-> 500]
               /\ UNCHANGED listing
               /\ open_conns' = Release(Acquire(open_conns))
          ELSE /\ \E order \in Orderings(Where(users, status_filter)) :
                     listing' = [active |-> TRUE, req |-> req,
                                 users |-> [i \in DOMAIN Page(order, limit, offset) |->
                                               UserDict(Page(order, limit, offset)[i])],
                                 \* history: how many rows the page query had to choose from
                                 matched |-> Cardinality(Where(users, status_filter))]
               /\ UNCHANGED resp
               /\ open_conns' = Acquire(open_conns)
    /\ UNCHANGED <<variant, users, users_id_seq, now, created>>

list_users_count_Snapshot ==
    /\ variant = "render"
    /\ listing.active
    /\ LET limit == listing.req.limit
           offset == listing.req.offset
           total == listing.matched
       IN resp' = IF limit = 0
                  THEN [op |-> "list", code |-> 500]
                  ELSE [op |-> "list", code |-> 200,
                        body |-> [users |-> listing.users,
                                  pagination |-> [total |-> total,
                                                  limit |-> limit,
                                                  offset |-> offset,
                                                  has_more |-> (offset + limit) < total,
                                                  pages |-> Pages(total, limit)]]]
    /\ listing' = NoListing
    /\ open_conns' = Release(open_conns)
    /\ UNCHANGED <<variant, users, users_id_seq, now, created>>

\* limit = 0 divides by zero in the page count; the handler answers 500.
list_users_count ==
    /\ variant = "render"
    /\ listing.active
    /\ LET limit == listing.req.limit
           offset == listing.req.offset
           total == Cardinality(Where(users, listing.req.status_filter))
       IN resp' = IF limit = 0
                  THEN [op |-> "list", code |-> 500]
                  ELSE [op |-> "list", code |-> 200,
                        body |-> [users |-> listing.users,
                                  pagination |-> [total |-> total,
                                                  limit |-> limit,
                                                  offset |-> offset,
                                                  has_more |-> (offset + limit) < total,
                                                  pages |-> Pages(total, limit)]]]
    /\ listing' = NoListing
    /\ open_conns' = Release(open_conns)
    /\ UNCHANGED <<variant, users, users_id_seq, now, created>>

(***************************************************************************)
(* GET /users/{user_id}                                                    *)
(***************************************************************************)
get_user_by_id_ActiveOnly(user_id) ==
    /\ variant = "render"
    /\ LET req == [user_id |-> user_id]
           found == {r \in users : r.id = user_id /\ r.status # "deleted"}
       IN resp' = IF found # {}
                  THEN [op |-> "get", req |-> req, code |-> 200,
                        body |-> [id |-> RowOf(users, user_id).id,
                                  username |-> RowOf(users, user_id).username]]
                  ELSE [op |-> "get", req |-> req, code |-> 404]
    /\ UNCHANGED <<variant, users, users_id_seq, now, listing, created>>
    /\ open_conns' = Release(Acquire(open_conns))

get_user_by_id(user_id) ==
    /\ variant = "render"
    /\ LET req == [user_id |-> user_id]
       IN resp' = IF user_id \in IdsOf(users)
                  THEN [op |-> "get", req |-> req, code |-> 200,
                        body |-> [id |-> RowOf(users, user_id).id,
                                  username |-> RowOf(users, user_id).username]]
                  ELSE [op |-> "get", req |-> req, code |-> 404]
    /\ UNCHANGED <<variant, users, users_id_seq, now, listing, created>>
    /\ open_conns' = Release(Acquire(open_conns))

(***************************************************************************)
(* PUT /users/{user_id}                                                    *)
(***************************************************************************)
Supplied_AlwaysTimestamp(user_data) ==
    {f \in {"username", "email", "status"} : user_data[f] # None} \cup {"updated_at"}

\* update_fields: the fields of UserUpdate that are not None.
Supplied(user_data) == {f \in {"username", "email", "status"} : user_data[f] # None}

\* UPDATE users SET <supplied fields>, updated_at = CURRENT_TIMESTAMP
UpdatedRow(old, user_data, t) ==
    [old EXCEPT
       !.username = IF user_data.username # None
                    THEN VarcharValue(Val(user_data.username), USERNAME_LEN) ELSE @,
       !.email = IF user_data.email # None THEN Val(user_data.email) ELSE @,
       !.status = IF user_data.status # None
                  THEN VarcharValue(Val(user_data.status), STATUS_LEN) ELSE @,
       !.updated_at = t]

UpdateCondition_NoUniqueIndex(tbl, id, user_data) ==
    IF \/ user_data.username # None /\ ~VarcharFits(Val(user_data.username), USERNAME_LEN)
       \/ user_data.status # None /\ ~VarcharFits(Val(user_data.status), STATUS_LEN)
    THEN STRING_DATA_RIGHT_TRUNCATION
    ELSE Ok

UpdateCondition(tbl, id, user_data) ==
    IF \/ user_data.username # None /\ ~VarcharFits(Val(user_data.username), USERNAME_LEN)
       \/ user_data.status # None /\ ~VarcharFits(Val(user_data.status), STATUS_LEN)
    THEN STRING_DATA_RIGHT_TRUNCATION
    ELSE IF user_data.email # None /\ UniqueViolation(tbl, id, Val(user_data.email))
    THEN UNIQUE_VIOLATION
    ELSE Ok

UpdateStatus(cond) ==
    IF cond = Ok THEN 200
    ELSE IF ExcClass(cond) = "IntegrityError" THEN 409
    ELSE 500

update_user(user_id, user_data) ==
    /\ variant = "render"
    /\ LET req == [user_id |-> user_id]
       IN IF user_id \notin IdsOf(users)
          THEN /\ resp' = [op |-> "update", req |-> req, code |-> 404]
               /\ UNCHANGED users
          ELSE IF Supplied(user_data) = {}
          THEN /\ resp' = [op |-> "update", req |-> req, code |-> 400]
               /\ UNCHANGED users
          ELSE LET cond == UpdateCondition(users, user_id, user_data)
                   old == RowOf(users, user_id)
                   new == UpdatedRow(old, user_data, now)
               IN IF cond = Ok
                  THEN /\ users' = (users \ {old}) \cup {new}
                       /\ resp' = [op |-> "update", req |-> req, code |-> 200,
                                   body |-> [id |-> new.id, username |-> new.username,
                                             email |-> new.email, status |-> new.status,
                                             updated_at |-> new.updated_at]]
                  ELSE /\ resp' = [op |-> "update", req |-> req, code |-> UpdateStatus(cond)]
                       /\ UNCHANGED users
    /\ UNCHANGED <<variant, users_id_seq, now, listing, created>>
    /\ open_conns' = Release(Acquire(open_conns))

(***************************************************************************)
(* DELETE /users/{user_id}                                                 *)
(***************************************************************************)
DeleteTargets_AnyStatus(tbl, user_id) == {r \in tbl : r.id = user_id}

\* WHERE id = :user_id AND status != 'deleted'
DeleteTargets(tbl, user_id) == {r \in tbl : r.id = user_id /\ r.status # "deleted"}

DeletedRow_Anonymised(old, t) ==
    [old EXCEPT !.status = "deleted", !.username = "", !.updated_at = t]

\* SET status = 'deleted', updated_at = CURRENT_TIMESTAMP
DeletedRow(old, t) == [old EXCEPT !.status = "deleted", !.updated_at = t]

delete_user(user_id) ==
    /\ variant = "render"
    /\ LET req == [user_id |-> user_id]
           targets == DeleteTargets(users, user_id)
       IN IF targets = {}
          THEN /\ resp' = [op |-> "delete", req |-> req, code |-> 404]
               /\ UNCHANGED users
          ELSE /\ users' = (users \ targets) \cup {DeletedRow(r, now) : r \in targets}
               /\ resp' = [op |-> "delete", req |-> req, code |-> 200,
                           body |-> [id |-> user_id,
                                     username |-> RowOf(targets, user_id).username,
                                     email |-> RowOf(targets, user_id).email]]
    /\ UNCHANGED <<variant, users_id_seq, now, listing, created>>
    /\ open_conns' = Release(Acquire(open_conns))

(***************************************************************************)
(* The requests clients send.  Spec is the writers and the single-row      *)
(* read, in every order.  ListSpec puts GET /users, whose two queries      *)
(* other requests may separate, among writers drawn from smaller inputs    *)
(* and within one reading of the clock (rows created in it tie in the      *)
(* ORDER BY); list_users leaves users, users_id_seq and created as they    *)
(* are, so what Spec shows of the table holds with listings in between.    *)
(***************************************************************************)
UserUpdates == [username : Opt(Usernames), email : Opt(Emails), status : Opt(Statuses)]

Next ==
    \/ Tick
    \/ \E username \in Usernames, email \in Emails : receive_user_webhook(username, email)
    \/ \E username \in Usernames, email \in Emails : main_receive_user_webhook(username, email)
    \/ \E user_id \in Ids : get_user_by_id(user_id)
    \/ \E user_id \in Ids, user_data \in UserUpdates : update_user(user_id, user_data)
    \/ \E user_id \in Ids : delete_user(user_id)

Spec == Init /\ [][Next]_vars

ListUsernames == {"ana"}
ListUpdates == [username : {None}, email : {None}, status : Opt({"active", "deleted"})]

ListInit == Init /\ variant = "render"

ListNext ==
    \/ \E username \in ListUsernames, email \in Emails : receive_user_webhook(username, email)
    \/ \E user_id \in Ids, user_data \in ListUpdates : update_user(user_id, user_data)
    \/ \E user_id \in Ids : delete_user(user_id)
    \/ \E limit \in Limits, offset \in Offsets, status_filter \in StatusFilters :
          list_users_page(limit, offset, status_filter)
    \/ list_users_count

ListSpec == ListInit /\ [][ListNext]_vars

(***************************************************************************)
(* Storage failures other than a constraint or a data error (the store is  *)
(* unreachable, locked, out of space), raised by the statement or by the   *)
(* commit; a commit is reached only when the statement went through.  No   *)
(* row is committed.  In api_render.py the exception leaves the with       *)
(* block, which gives the connection back, and `except Exception` answers  *)
(* 500.  In main.py only sqlite3.IntegrityError is caught: any other       *)
(* exception leaves receive_user_webhook before conn.close() is reached.   *)
(***************************************************************************)
MaxOpen == 2
Faults == {"statement", "commit"}

receive_user_webhook_fails(username, email, at) ==
    /\ variant = "render"
    /\ IF at = "commit"
       THEN /\ users_id_seq < MaxSeq
            /\ InsertCondition(users, users_id_seq + 1, username, email) = Ok
            /\ users_id_seq' = users_id_seq + 1
       ELSE UNCHANGED users_id_seq
    /\ resp' = [op |-> "create", req |-> [email |-> email], code |-> 500]
    /\ open_conns' = Release(Acquire(open_conns))
    /\ UNCHANGED <<variant, users, now, listing, created>>

main_receive_user_webhook_fails(username, email, at) ==
    /\ variant = "sqlite"
    /\ open_conns < MaxOpen
    /\ at = "commit" =>
          (users_id_seq < MaxSeq /\ SqliteInsertCondition(users, users_id_seq + 1, email) = Ok)
    /\ resp' = [op |-> "create", req |-> [email |-> email], code |-> 500]
    /\ open_conns' = Acquire(open_conns)
    /\ UNCHANGED <<variant, users, users_id_seq, now, listing, created>>

list_users_page_fails ==
    /\ variant = "render"
    /\ ~listing.active
    /\ resp' = [op |-> "list", code |-> 500]
    /\ open_conns' = Release(Acquire(open_conns))
    /\ UNCHANGED <<variant, users, users_id_seq, now, listing, created>>

list_users_count_fails ==
    /\ variant = "render"
    /\ listing.active
    /\ resp' = [op |-> "list", code |-> 500]
    /\ listing' = NoListing
    /\ open_conns' = Release(open_conns)
    /\ UNCHANGED <<variant, users, users_id_seq, now, created>>

get_user_by_id_fails(user_id) ==
    /\ variant = "render"
    /\ resp' = [op |-> "get", req |-> [user_id |-> user_id], code |-> 500]
    /\ open_conns' = Release(Acquire(open_conns))
    /\ UNCHANGED <<variant, users, users_id_seq, now, listing, created>>

update_user_fails(user_id) ==
    /\ variant = "render"
    /\ resp' = [op |-> "update", req |-> [user_id |-> user_id], code |-> 500]
    /\ open_conns' = Release(Acquire(open_conns))
    /\ UNCHANGED <<variant, users, users_id_seq, now, listing, created>>

delete_user_fails(user_id) ==
    /\ variant = "render"
    /\ resp' = [op |-> "delete", req |-> [user_id |-> user_id], code |-> 500]
    /\ open_conns' = Release(Acquire(open_conns))
    /\ UNCHANGED <<variant, users, users_id_seq, now, listing, created>>

(***************************************************************************)
(* ConnSpec: every handler of both variants with every way it can end.     *)
(***************************************************************************)
ConnUsernames == {"ana", LongName}
ConnUpdates == [username : {None}, email : Opt(Emails), status : Opt({"deleted"})]

ConnNext ==
    \/ \E username \in ConnUsernames, email \in Emails : receive_user_webhook(username, email)
    \/ \E username \in ConnUsernames, email \in Emails : main_receive_user_webhook(username, email)
    \/ \E limit \in Limits, offset \in Offsets, status_filter \in StatusFilters :
          list_users_page(limit, offset, status_filter)
    \/ list_users_count
    \/ \E user_id \in Ids : get_user_by_id(user_id)
    \/ \E user_id \in Ids, user_data \in ConnUpdates : update_user(user_id, user_data)
    \/ \E user_id \in Ids : delete_user(user_id)
    \/ \E username \in ConnUsernames, email \in Emails, at \in Faults :
          receive_user_webhook_fails(username, email, at)
    \/ \E username \in ConnUsernames, email \in Emails, at \in Faults :
          main_receive_user_webhook_fails(username, email, at)
    \/ list_users_page_fails
    \/ list_users_count_fails
    \/ \E user_id \in Ids : get_user_by_id_fails(user_id)
    \/ \E user_id \in Ids : update_user_fails(user_id)
    \/ \E user_id \in Ids : delete_user_fails(user_id)

ConnSpec == Init /\ [][ConnNext]_vars

(***************************************************************************)
(* Properties.                                                             *)
(***************************************************************************)
IsCreate(username, email) ==
    receive_user_webhook(username, email) \/ main_receive_user_webhook(username, email)

\* C1: a create whose email some stored row (active or soft-deleted) already
\* holds answers 409 and inserts nothing: one row holds the email before and
\* after.
C1_DuplicateEmailIsConflict ==
    [][\A username \in Usernames, email \in Emails :
          (resp'.op = "create" /\ RowsWithEmail(users, email) # {}
                                /\ IsCreate(username, email)) =>
              /\ resp'.code = 409
              /\ users' = users
              /\ Cardinality(RowsWithEmail(users, email)) = 1
              /\ Cardinality(RowsWithEmail(users', email)) = 1]_vars

\* C2: no two rows of users, soft-deleted ones included, hold the same email.
C2_EmailUnique == \A r1, r2 \in users : r1.email = r2.email => r1 = r2

C2_Witness ==
    /\ variant = "render"
    /\ Cardinality(users) = 2
    /\ \E r \in users : r.status = "deleted"
    /\ resp.op = "update" /\ resp.code = 409

\* C3: DELETE /users/{id} on a row whose status is not 'deleted' answers 200
\* and sets the status to 'deleted'; a DELETE of an id whose row is already
\* 'deleted' (so the second of two successive DELETEs of one id) answers 404
\* and changes nothing.
C3_DeleteTwice ==
    [][\A user_id \in Ids : (resp'.op = "delete" /\ delete_user(user_id)) =>
          /\ (\E r \in users : r.id = user_id /\ r.status # "deleted") =>
                (resp'.code = 200 /\ RowOf(users', user_id).status = "deleted")
          /\ (\E r \in users : r.id = user_id /\ r.status = "deleted") =>
                (resp'.code = 404 /\ users' = users)
          /\ (resp.op = "delete" /\ resp.code = 200 /\ resp.req.user_id = user_id) =>
                (resp'.code = 404 /\ users' = users)]_vars

C3_Witness ==
    /\ resp.op = "delete" /\ resp.code = 404
    /\ \E r \in users : r.id = resp.req.user_id /\ r.status = "deleted"

NoFields == [username |-> None, email |-> None, status |-> None]

\* C4 as stated: an update that supplies no field answers 400 and changes no
\* row.
C4_Original ==
    [][\A user_id \in Ids : (resp'.op = "update" /\ update_user(user_id, NoFields)) =>
          (resp'.code = 400 /\ users' = users)]_vars

\* C4, amended: an update that supplies no field changes no row; it answers
\* 400 when the id exists and 404 when it does not.
C4_NoFieldsMutatesNothing ==
    [][\A user_id \in Ids : (resp'.op = "update" /\ update_user(user_id, NoFields)) =>
          /\ users' = users
          /\ resp'.code = (IF user_id \in IdsOf(users) THEN 400 ELSE 404)]_vars

C4_Witness ==
    /\ resp.op = "update" /\ resp.code = 400
    /\ \E r \in users : r.id = resp.req.user_id /\ r.updated_at < now

\* What the claims mean by the rows matching an optional status filter, and
\* by the ceiling of a quotient.
RowsMatching(tbl, status_filter) ==
    IF status_filter = None THEN tbl ELSE {r \in tbl : r.status = Val(status_filter)}
Ceiling(a, b) == CHOOSE k \in 0 .. a : k * b >= a /\ (k = 0 \/ (k - 1) * b < a)

ListingAnswer(l, lim, status_filter) ==
    /\ l.code = 200
    /\ Len(l.body.users) <= lim
    /\ l.body.pagination.total = Cardinality(RowsMatching(users, status_filter))
    /\ l.body.pagination.pages = Ceiling(l.body.pagination.total, lim)

\* C5 as stated: for every limit, offset and optional filter the listing
\* returns at most limit records, the number of rows matching the filter as
\* total, and ceiling(total / limit) as pages.
C5_Original ==
    [][/\ \A limit \in Limits, offset \in Offsets, status_filter \in StatusFilters :
             list_users_page(limit, offset, status_filter) => listing'.active
       /\ list_users_count =>
             ListingAnswer(resp', listing.req.limit, listing.req.status_filter)]_vars

\* C5, amended: for every limit >= 1, offset >= 0 and status filter that is
\* absent or a non-empty string, the listing returns at most limit records,
\* as total the number of rows matching the filter when the count query
\* runs, and ceiling(total / limit) as pages.
C5_Listing ==
    [][/\ \A limit \in Limits, offset \in Offsets, status_filter \in StatusFilters :
             (limit >= 1 /\ offset >= 0 /\ list_users_page(limit, offset, status_filter))
                 => listing'.active
       /\ (/\ list_users_count
           /\ listing.req.limit >= 1
           /\ listing.req.status_filter # Some("")) =>
             ListingAnswer(resp', listing.req.limit, listing.req.status_filter)]_vars

C5_Witness ==
    /\ resp.op = "list" /\ resp.code = 200
    /\ resp.body.pagination.limit = 2
    /\ resp.body.pagination.total = 1
    /\ resp.body.pagination.pages = 1
    /\ Len(resp.body.users) = 1
    /\ Cardinality(users) = 2

\* C6: a create with a valid email no stored row holds answers 201, inserts
\* exactly one row, with status 'active', and returns an id greater than 0
\* that no earlier row was given.
C6_FreshEmailAlwaysCreated ==
    [][\A username \in Usernames, email \in Emails :
          (resp'.op = "create" /\ RowsWithEmail(users, email) = {}
                                /\ IsCreate(username, email)) =>
              /\ resp'.code = 201
              /\ resp'.body.user_id > 0
              /\ resp'.body.user_id \notin created \cup IdsOf(users)
              /\ \E r \in users' :
                    /\ r.id = resp'.body.user_id
                    /\ r.email = email
                    /\ variant = "render" => r.status = "active"
                    /\ users' = users \cup {r}]_vars

\* C7: GET /users/{id} of an id some create returned answers 200 with that
\* id, whatever updates and soft-deletes the row has seen; it answers 404
\* only for an id no create returned.
C7_GetCreated ==
    resp.op = "get" =>
        /\ resp.code \in {200, 404}
        /\ resp.req.user_id \in created => (resp.code = 200 /\ resp.body.id = resp.req.user_id)
        /\ resp.code = 404 => resp.req.user_id \notin created

C7_Witness ==
    /\ resp.op = "get" /\ resp.code = 200
    /\ \E r \in users : /\ r.id = resp.req.user_id
                        /\ r.status = "deleted"
                        /\ r.username # "ana"

\* C8: a successful soft-delete changes, of the row it targets, only status
\* (to 'deleted') and updated_at (to the current time), and changes no other
\* row; no step of any handler removes a row.
C8_DeleteFrame ==
    [][/\ \A user_id \in Ids :
             (resp'.op = "delete" /\ resp'.code = 200 /\ delete_user(user_id)) =>
             /\ \A r \in users : r.id # user_id => r \in users'
             /\ Cardinality(users') = Cardinality(users)
             /\ LET old == RowOf(users, user_id)
                    new == RowOf(users', user_id)
                IN /\ new.status = "deleted"
                   /\ new.updated_at = now
                   /\ new.username = old.username
                   /\ new.email = old.email
                   /\ new.user_data = old.user_data
                   /\ new.created_at = old.created_at
       /\ IdsOf(users) \subseteq IdsOf(users')]_vars

C8_Witness ==
    /\ resp.op = "delete" /\ resp.code = 200
    /\ Cardinality(users) = 2
    /\ \E r \in users : /\ r.id = resp.req.user_id
                        /\ r.status = "deleted"
                        /\ r.updated_at > r.created_at

\* C9: a successful update sets exactly the supplied fields to the supplied
\* values and updated_at to the current time, keeps every other field and
\* every other row, and returns the row as stored; an update of an id that
\* does not exist answers 404 and changes nothing.
C9_UpdateFrame ==
    [][\A user_id \in Ids, user_data \in UserUpdates :
          (resp'.op = "update" /\ update_user(user_id, user_data)) =>
          /\ user_id \notin IdsOf(users) => (resp'.code = 404 /\ users' = users)
          /\ resp'.code = 200 =>
                /\ \A r \in users : r.id # user_id => r \in users'
                /\ Cardinality(users') = Cardinality(users)
                /\ LET old == RowOf(users, user_id)
                       new == RowOf(users', user_id)
                   IN /\ \A f \in {"username", "email", "status"} :
                            new[f] = IF user_data[f] # None THEN Val(user_data[f]) ELSE old[f]
                      /\ new.updated_at = now
                      /\ new.user_data = old.user_data
                      /\ new.created_at = old.created_at
                      /\ resp'.body = [id |-> new.id, username |-> new.username,
                                       email |-> new.email, status |-> new.status,
                                       updated_at |-> new.updated_at]]_vars

\* C10: an update of an existing user with an email another row (active or
\* soft-deleted) holds answers 409 and leaves every row as it was.
C10_UpdateEmailConflict ==
    [][\A user_id \in Ids, user_data \in UserUpdates :
          (/\ resp'.op = "update"
           /\ user_id \in IdsOf(users)
           /\ user_data.email # None
           /\ UniqueViolation(users, user_id, Val(user_data.email))
           /\ update_user(user_id, user_data)) =>
              (resp'.code = 409 /\ users' = users)]_vars

(***************************************************************************)
(* What C1, C6, C9 and C10 come to for strings the columns take as they    *)
(* are: the violations above all go back to the unchecked column widths.   *)
(***************************************************************************)
FitsColumns(user_data) ==
    /\ user_data.username # None => Len(Val(user_data.username)) <= USERNAME_LEN
    /\ user_data.status # None => Len(Val(user_data.status)) <= STATUS_LEN

\* A create of a stored email whose username the column takes answers 409.
Fits_DuplicateEmailIsConflict ==
    [][\A username \in Usernames, email \in Emails :
          (/\ resp'.op = "create"
           /\ RowsWithEmail(users, email) # {}
           /\ variant = "render" => VarcharFits(username, USERNAME_LEN)
           /\ IsCreate(username, email)) =>
              (resp'.code = 409 /\ users' = users)]_vars

\* A create of a fresh email whose username the column takes answers 201
\* with a new id greater than 0.
Fits_FreshEmailCreated ==
    [][\A username \in Usernames, email \in Emails :
          (/\ resp'.op = "create"
           /\ RowsWithEmail(users, email) = {}
           /\ variant = "render" => VarcharFits(username, USERNAME_LEN)
           /\ IsCreate(username, email)) =>
              /\ resp'.code = 201
              /\ resp'.body.user_id > 0
              /\ resp'.body.user_id \notin created \cup IdsOf(users)
              /\ Cardinality(users') = Cardinality(users) + 1]_vars

\* A successful update with values no wider than the columns stores exactly
\* the supplied values.
Fits_UpdateFrame ==
    [][\A user_id \in Ids, user_data \in UserUpdates :
          (/\ resp'.op = "update" /\ resp'.code = 200
           /\ FitsColumns(user_data)
           /\ update_user(user_id, user_data)) =>
              /\ \A r \in users : r.id # user_id => r \in users'
              /\ LET old == RowOf(users, user_id)
                     new == RowOf(users', user_id)
                 IN /\ \A f \in {"username", "email", "status"} :
                          new[f] = IF user_data[f] # None THEN Val(user_data[f]) ELSE old[f]
                    /\ new.updated_at = now
                    /\ new.user_data = old.user_data
                    /\ new.created_at = old.created_at]_vars

\* An update to another row's email with values the columns take answers 409.
Fits_UpdateEmailConflict ==
    [][\A user_id \in Ids, user_data \in UserUpdates :
          (/\ resp'.op = "update"
           /\ user_id \in IdsOf(users)
           /\ user_data.email # None
           /\ UniqueViolation(users, user_id, Val(user_data.email))
           /\ user_data.username # None => VarcharFits(Val(user_data.username), USERNAME_LEN)
           /\ user_data.status # None => VarcharFits(Val(user_data.status), STATUS_LEN)
           /\ update_user(user_id, user_data)) =>
              (resp'.code = 409 /\ users' = users)]_vars

\* C11: every handler of both variants gives its connection back on every
\* way out (success, 409/404/400, any other storage failure): the only
\* connection open in any state is that of a listing between its queries.
C11_ConnectionsReleased == open_conns = (IF listing.active THEN 1 ELSE 0)

\* What C11 comes to for api_render.py alone, whose handlers all hold the
\* connection in a with block.
Render_ConnectionsReleased == variant = "render" => C11_ConnectionsReleased

\* C12: the page query and the count query of list_users are two statements
\* that other requests' commits may separate.  The page a listing returns is
\* the one its page query read, out of the rows that matched then; the total,
\* has_more and pages it returns are those of the table as the count query
\* finds it, whatever the page query saw.
C12_TotalIsOfCountQuery ==
    [][/\ \A limit \in Limits, offset \in Offsets, status_filter \in StatusFilters :
             (/\ listing'.active /\ ~listing.active
              /\ list_users_page(limit, offset, status_filter)) =>
                 /\ listing'.matched = Cardinality(Where(users, status_filter))
                 /\ Len(listing'.users) = Min(limit, listing'.matched - Min(offset, listing'.matched))
                 /\ \A i \in DOMAIN listing'.users :
                       \E r \in Where(users, status_filter) : listing'.users[i] = UserDict(r)
       /\ (resp'.op = "list" /\ resp'.code = 200 /\ listing.active /\ list_users_count) =>
             LET p == resp'.body.pagination
                 total == Cardinality(Where(users, listing.req.status_filter))
             IN /\ resp'.body.users = listing.users
                /\ p.total = total
                /\ p.has_more = (p.offset + p.limit < total)
                /\ p.pages = Pages(total, p.limit)]_vars

\* A response no single state of the table can give: the page starts at
\* offset 0 and is not full, yet the total is not the length of the page.
C12_Witness ==
    /\ resp.op = "list" /\ resp.code = 200
    /\ resp.body.pagination.offset = 0
    /\ Len(resp.body.users) < resp.body.pagination.limit
    /\ resp.body.pagination.total # Len(resp.body.users)

====
